---- MODULE Spec2Model ----
(***************************************************************************)
(* Model of src/ingestion/process_gsod.py: the GSOD batch converter.       *)
(* main() discovers the .csv files of RAW_DIR, sorts them, keeps the first *)
(* FileCap of them and runs process_station_file on each in turn:          *)
(* read_csv -> clean_and_convert -> save_parquet -> upload_to_s3.          *)
(* Strings the code inspects (file names, paths, keys) are sequences of    *)
(* one-character strings, so endswith/replace/basename/sorted are computed *)
(* character by character as Python computes them.                         *)
(***************************************************************************)
EXTENDS Integers, Sequences, FiniteSets, TLC

VARIABLES
    dirExists,      \* os.path.exists(RAW_DIR)
    rawDir,         \* RAW_DIR: file name -> file content (never written by the program)
    procDirExists,  \* PROCESSED_DIR exists on disk
    local,          \* local disk: output path -> parquet file content
    blob,           \* S3 bucket: key -> object content
    pc,             \* position of main / process_station_file
    run,            \* number of the current invocation of main
    limited_files,  \* main: limited_files
    i,              \* main: position of the for loop in limited_files (1-based)
    station_id,     \* process_station_file: station_id
    df,             \* process_station_file: df (result of read_csv)
    cleaned_df,     \* process_station_file: cleaned_df
    local_parquet,  \* process_station_file: local_parquet
    log,            \* log lines emitted by the current invocation
    outcomes,       \* history: how each call of process_station_file of this invocation ended
    prev            \* history: snapshot taken at the end of the previous invocation

vars == <<dirExists, rawDir, procDirExists, local, blob, pc, run, limited_files, i,
          station_id, df, cleaned_df, local_parquet, log, outcomes, prev>>

(***************************************************************************)
(* Bounds of the model                                                     *)
(***************************************************************************)
MaxFiles == 3      \* at most this many entries in RAW_DIR
MaxRows == 2       \* at most this many rows in an exhaustively enumerated table
MaxRuns == 2       \* main is invoked at most this many times in a row

\* all_files[:400] in the source; scaled down so that truncation happens
\* with MaxFiles entries in the directory.
FileCap == 2

(***************************************************************************)
(* Strings                                                                 *)
(***************************************************************************)
RAW_DIR == <<"d","a","t","a","/","r","a","w","/","2","0","2","5">>
PROCESSED_DIR == <<"d","a","t","a","/","p","r","o","c","e","s","s","e","d","/","2","0","2","5">>
S3_PREFIX == <<"p","r","o","c","e","s","s","e","d","/","2","0","2","5","/">>
CSV_EXT == <<".","c","s","v">>
PARQUET_EXT == <<".","p","a","r","q","u","e","t">>
NoPath == <<>>     \* None, as returned by save_parquet on failure

\* The characters in use, in code point order (Python compares str by code point).
Alphabet == <<".","/","0","2","5","a","b","c","d","e","n","o","p","q","r","s","t","u","v","w","x">>

Ord(c) == CHOOSE k \in 1..Len(Alphabet) : Alphabet[k] = c

Min(a, b) == IF a < b THEN a ELSE b

\* str.__lt__
RECURSIVE StrLess(_, _)
StrLess(a, b) ==
    IF b = <<>> THEN FALSE
    ELSE IF a = <<>> THEN TRUE
    ELSE IF a[1] = b[1] THEN StrLess(Tail(a), Tail(b))
    ELSE Ord(a[1]) < Ord(b[1])

\* str.startswith
StartsWith(s, p) == Len(s) >= Len(p) /\ SubSeq(s, 1, Len(p)) = p

\* str.endswith
EndsWith(s, p) == Len(s) >= Len(p) /\ SubSeq(s, Len(s) - Len(p) + 1, Len(s)) = p

\* str.replace(old, new): every non-overlapping occurrence, left to right
RECURSIVE Replace(_, _, _)
Replace(s, old, new) ==
    IF s = <<>> THEN <<>>
    ELSE IF StartsWith(s, old)
         THEN new \o Replace(SubSeq(s, Len(old) + 1, Len(s)), old, new)
         ELSE <<s[1]>> \o Replace(Tail(s), old, new)

\* os.path.join of two components
Join(a, b) ==
    IF b # <<>> /\ b[1] = "/" THEN b
    ELSE IF a = <<>> \/ a[Len(a)] = "/" THEN a \o b
    ELSE a \o <<"/">> \o b

\* os.path.basename: what follows the last "/"
RECURSIVE basename(_)
basename(p) ==
    IF \E k \in 1..Len(p) : p[k] = "/"
    THEN basename(Tail(p))
    ELSE p

\* sorted, had the call been left out: the order of the listing
unsorted(s) == s

\* sorted(): the rearrangement of s in ascending order (equal elements are
\* equal strings, so the result is unique)
sorted(s) ==
    LET n == Len(s)
        Orders == {p \in [1..n -> 1..n] : \A a, b \in 1..n : a # b => p[a] # p[b]}
    IN CHOOSE t \in {[k \in 1..n |-> s[p[k]]] : p \in Orders} :
         \A k \in 1..(n - 1) : ~StrLess(t[k + 1], t[k])

\* [x for x in s if pred]: here, the list comprehension of main
RECURSIVE CsvPaths(_)
CsvPaths(s) ==
    IF s = <<>> THEN <<>>
    ELSE IF EndsWith(s[1], CSV_EXT)
         THEN <<Join(RAW_DIR, s[1])>> \o CsvPaths(Tail(s))
         ELSE CsvPaths(Tail(s))

\* all_files of main, for one order in which os.listdir returns the entries
all_files(listing) == sorted(CsvPaths(listing))

\* all_files[:400]
Limit(files) == SubSeq(files, 1, Min(FileCap, Len(files)))

\* station_id of process_station_file
StationIdOf(file_path) == Replace(basename(file_path), CSV_EXT, <<>>)

\* output_path of save_parquet
OutputPath(sid) == Join(PROCESSED_DIR, sid \o PARQUET_EXT)

\* s3_key of process_station_file
S3Key(sid) == S3_PREFIX \o sid \o PARQUET_EXT

(***************************************************************************)
(* Data frames                                                             *)
(* A frame is [columns, index, rows]: the column labels in order, the row  *)
(* labels (pandas keeps them through dropna) and one function per row from *)
(* column label to cell.  Raw cells are text; a coerced cell is            *)
(* [na, v]: na for NaT/NaN, else v (a date as yyyymmdd, a number in tenths).*)
(***************************************************************************)
Header == <<"STATION", "DATE", "TEMP", "MAX", "MIN">>
Required == <<"DATE", "TEMP", "MAX", "MIN">>
Renamed == <<"date", "temp", "max_temp", "min_temp">>

DateTexts == {"2025-01-01", "2025-01-02", "N/A"}
NumTexts == {"5.0", "abc"}

Range(s) == {s[k] : k \in DOMAIN s}

NA == [na |-> TRUE, v |-> 0]
Val(x) == [na |-> FALSE, v |-> x]

\* pd.to_datetime(..., errors='coerce') on one cell
to_datetime(t) ==
    CASE t = "2025-01-01" -> Val(20250101)
      [] t = "2025-01-02" -> Val(20250102)
      [] OTHER -> NA

\* pd.to_numeric(..., errors='coerce') on one cell
to_numeric(t) ==
    CASE t = "5.0" -> Val(50)
      [] t = "8.0" -> Val(80)
      [] OTHER -> NA

\* pd.DataFrame()
EmptyFrame == [columns |-> <<>>, index |-> <<>>, rows |-> <<>>]

\* IsEmpty, had the test been on the columns alone
IsEmptyColumnsOnly(d) == Len(d.columns) = 0

\* DataFrame.empty: some axis has length 0
IsEmpty(d) == Len(d.columns) = 0 \/ Len(d.rows) = 0

\* pd.read_csv of a readable file: the header, the rows, a fresh RangeIndex
read_csv(content) ==
    [columns |-> content.columns,
     index |-> [k \in 1..Len(content.rows) |-> k - 1],
     rows |-> content.rows]

\* DateNotNa, had the kept rows come out last first
RECURSIVE DateNotNaReversed(_, _)
DateNotNaReversed(rows, k) ==
    IF k > Len(rows) THEN <<>>
    ELSE IF rows[k]["date"].na THEN DateNotNaReversed(rows, k + 1)
    ELSE DateNotNaReversed(rows, k + 1) \o <<k>>

\* positions of the rows dropna(subset=['date']) keeps, in order
RECURSIVE DateNotNa(_, _)
DateNotNa(rows, k) ==
    IF k > Len(rows) THEN <<>>
    ELSE IF rows[k]["date"].na THEN DateNotNa(rows, k + 1)
    ELSE <<k>> \o DateNotNa(rows, k + 1)

\* dropna, had subset=['date'] been left out: a row with any missing cell goes
RECURSIVE NothingNa(_, _)
NothingNa(rows, k) ==
    IF k > Len(rows) THEN <<>>
    ELSE IF \E c \in DOMAIN rows[k] : rows[k][c].na THEN NothingNa(rows, k + 1)
    ELSE <<k>> \o NothingNa(rows, k + 1)

dropnaAny(d) ==
    LET keep == NothingNa(d.rows, 1)
    IN [columns |-> d.columns,
        index |-> [j \in 1..Len(keep) |-> d.index[keep[j]]],
        rows |-> [j \in 1..Len(keep) |-> d.rows[keep[j]]]]

\* DataFrame.dropna(subset=['date'])
dropna(d) ==
    LET keep == DateNotNa(d.rows, 1)
    IN [columns |-> d.columns,
        index |-> [j \in 1..Len(keep) |-> d.index[keep[j]]],
        rows |-> [j \in 1..Len(keep) |-> d.rows[keep[j]]]]

\* Select, had it been a reindex: an absent column comes out as empty cells
SelectReindex(d) ==
    [raised |-> FALSE,
     df |-> [columns |-> Required, index |-> d.index,
             rows |-> [k \in DOMAIN d.rows |->
                         [c \in Range(Required) |->
                            IF c \in Range(d.columns) THEN d.rows[k][c] ELSE ""]]]]

\* line 42, df[['DATE', 'TEMP', 'MAX', 'MIN']]: KeyError when a label is absent
Select(d) ==
    IF \E k \in DOMAIN Required : Required[k] \notin Range(d.columns)
    THEN [raised |-> TRUE, df |-> EmptyFrame]
    ELSE [raised |-> FALSE,
          df |-> [columns |-> Required, index |-> d.index,
                  rows |-> [k \in DOMAIN d.rows |->
                              [c \in Range(Required) |-> d.rows[k][c]]]]]

\* line 43, df.columns = [...]: the labels are replaced position by position
rename(f) ==
    [columns |-> Renamed, index |-> f.index,
     rows |-> [k \in DOMAIN f.rows |->
                 [c \in Range(Renamed) |->
                    f.rows[k][f.columns[CHOOSE p \in DOMAIN Renamed : Renamed[p] = c]]]]]

\* lines 45-48: each column is converted cell by cell
coerce(f) ==
    [columns |-> f.columns, index |-> f.index,
     rows |-> [k \in DOMAIN f.rows |->
                 [c \in Range(f.columns) |->
                    IF c = "date" THEN to_datetime(f.rows[k][c]) ELSE to_numeric(f.rows[k][c])]]]

\* line 51, df['station_id'] = station_id: a new last column, the same value in every row
assign_station_id(f, sid) ==
    [columns |-> Append(f.columns, "station_id"), index |-> f.index,
     rows |-> [k \in DOMAIN f.rows |->
                 [c \in Range(f.columns) \cup {"station_id"} |->
                    IF c = "station_id" THEN sid ELSE f.rows[k][c]]]]

\* F applied to the value of x: one statement applied to the result of the one before
Then(x, F(_)) == CHOOSE y \in {F(v) : v \in {x}} : TRUE

\* clean_and_convert: [raised, df]; raised is the except branch, whose result
\* is pd.DataFrame()
clean_and_convert(d, sid) ==
    LET selected == Select(d) IN
    IF selected.raised
    THEN [raised |-> TRUE, df |-> EmptyFrame]
    ELSE [raised |-> FALSE,
          df |-> Then(Then(Then(Then(selected.df, rename), coerce), dropna),
                      LAMBDA f : assign_station_id(f, sid))]

\* DataFrame.to_parquet(path, index=False): the file holds columns and rows, not the index
to_parquet(d) == [columns |-> d.columns, rows |-> d.rows]

\* a file left behind by a write that failed halfway
PartialFile == [columns |-> <<>>, rows |-> <<>>]

\* WriteFile, had the file been opened for appending
WriteFileAppend(fs, path, content) ==
    [p \in DOMAIN fs \cup {path} |->
        IF p # path THEN fs[p]
        ELSE IF path \in DOMAIN fs
             THEN [columns |-> content.columns, rows |-> fs[path].rows \o content.rows]
             ELSE content]

\* writing a file at a path: creates it or replaces what was there
WriteFile(fs, path, content) ==
    [p \in DOMAIN fs \cup {path} |-> IF p = path THEN content ELSE fs[p]]

(***************************************************************************)
(* Inputs                                                                  *)
(***************************************************************************)
Name_a == <<"a", ".", "c", "s", "v">>
Name_aa == <<"a", ".", "c", "s", "v", ".", "c", "s", "v">>
Name_b == <<"b", ".", "c", "s", "v">>
Name_n == <<"n", ".", "t", "x", "t">>
NamePool == {Name_a, Name_aa, Name_b, Name_n}

Row(d, t, mx, mn) == [c \in Range(Header) |->
    CASE c = "STATION" -> "72405" [] c = "DATE" -> d [] c = "TEMP" -> t
      [] c = "MAX" -> mx [] c = "MIN" -> mn]

Unreadable == [readable |-> FALSE, columns |-> <<>>, rows |-> <<>>]
MissingColumn == [readable |-> TRUE, columns |-> <<"STATION", "DATE", "TEMP", "MAX">>,
                  rows |-> <<[c \in {"STATION", "DATE", "TEMP", "MAX"} |->
                               Row("2025-01-01", "5.0", "5.0", "5.0")[c]]>>]
OnlyBadDate == [readable |-> TRUE, columns |-> Header,
                rows |-> <<Row("N/A", "5.0", "5.0", "5.0")>>]
MixedRows == [readable |-> TRUE, columns |-> Header,
              rows |-> <<Row("2025-01-02", "abc", "5.0", "5.0"),
                         Row("N/A", "5.0", "5.0", "5.0"),
                         Row("2025-01-01", "5.0", "abc", "5.0")>>]
ContentPool == {Unreadable, MissingColumn, OnlyBadDate, MixedRows}

\* the headers clean_and_convert is tried on: STATION and any of the required columns
ColumnChoices == {SelectSeq(Header, LAMBDA c : c = "STATION" \/ c \in S) : S \in SUBSET Range(Required)}
\* the rows over a header: every text of its kind in every cell
RowsOver(cols) == {[c \in Range(cols) |-> Row(d, t, mx, mn)[c]] :
                     d \in DateTexts, t \in NumTexts, mx \in NumTexts, mn \in NumTexts}
StationIds == {<<"a">>, <<"b">>}

\* an artifact of an earlier year's run found on disk and in the bucket
StaleFile == [columns |-> <<"stale">>, rows |-> <<>>]
Empty == [p \in {} |-> StaleFile]
NoSnapshot == [local |-> Empty, blob |-> Empty, files |-> <<>>, outcomes |-> <<>>]

\* the orders in which os.listdir may return the entries S
Listings(S) == {s \in [1..Cardinality(S) -> S] : \A a, b \in DOMAIN s : a # b => s[a] # s[b]}

(***************************************************************************)
(* Initial states                                                          *)
(***************************************************************************)
Fresh ==
    /\ limited_files = <<>>
    /\ i = 0
    /\ cleaned_df = EmptyFrame
    /\ local_parquet = NoPath
    /\ log = <<>>
    /\ outcomes = <<>>

\* the script is about to be run on some directory, nothing or an old artifact on disk
InitBatch ==
    /\ dirExists \in BOOLEAN
    /\ \E names \in SUBSET NamePool :
         /\ Cardinality(names) <= MaxFiles
         /\ dirExists \/ names = {}
         /\ rawDir \in [names -> ContentPool]
    /\ \E stale \in BOOLEAN :
         /\ procDirExists = stale
         /\ local = (IF stale THEN WriteFile(Empty, OutputPath(<<"a">>), StaleFile) ELSE Empty)
         /\ blob = (IF stale THEN WriteFile(Empty, S3Key(<<"a">>), StaleFile) ELSE Empty)
    /\ pc = "main"
    /\ run = 1
    /\ station_id = <<>>
    /\ df = EmptyFrame
    /\ prev = NoSnapshot
    /\ Fresh

\* clean_and_convert is about to be called on some table of at most MaxRows rows
InitClean ==
    /\ dirExists = TRUE
    /\ rawDir = Empty
    /\ procDirExists = FALSE
    /\ local = Empty
    /\ blob = Empty
    /\ pc = "call_clean"
    /\ run = 1
    /\ station_id \in StationIds
    /\ \E cols \in ColumnChoices, n \in 0..MaxRows :
         \E rs \in [1..n -> RowsOver(cols)] :
            df = [columns |-> cols, index |-> [k \in 1..n |-> k - 1], rows |-> rs]
    /\ prev = NoSnapshot
    /\ Fresh

Init == InitBatch \/ InitClean

(***************************************************************************)
(* Logging and history                                                     *)
(***************************************************************************)
Line(level, msg, arg) == [level |-> level, msg |-> msg, arg |-> arg]

Ended(outcome, save, upload) ==
    Append(outcomes, [file |-> limited_files[i], outcome |-> outcome,
                      save |-> save, upload |-> upload])

Filename == basename(limited_files[i])

\* process_station_file returns; the for loop of main moves on
NextFile == /\ i' = i + 1
            /\ pc' = "for"

(***************************************************************************)
(* main                                                                    *)
(***************************************************************************)
\* CheckDir, had the existence test been left out
CheckDirNoGuard ==
    /\ pc = "main"
    /\ pc' = "listdir"
    /\ UNCHANGED <<dirExists, rawDir, procDirExists, local, blob, run, limited_files, i,
                   station_id, df, cleaned_df, local_parquet, log, outcomes, prev>>

\* lines 101-103
CheckDir ==
    /\ pc = "main"
    /\ IF dirExists
       THEN /\ pc' = "listdir"
            /\ log' = log
       ELSE /\ pc' = "returned"
            /\ log' = Append(log, Line("error", "Raw directory not found", RAW_DIR))
    /\ UNCHANGED <<dirExists, rawDir, procDirExists, local, blob, run, limited_files, i,
                   station_id, df, cleaned_df, local_parquet, outcomes, prev>>

\* lines 105-110; os.listdir returns the entries in arbitrary order, and raises
\* (nothing in main catches it) when the directory is not there
Discover ==
    /\ pc = "listdir"
    /\ IF dirExists
       THEN /\ \E listing \in Listings(DOMAIN rawDir) :
                 \E files \in {all_files(listing)} :
                    /\ limited_files' = Limit(files)
                    /\ log' = Append(log, Line("info", "Found",
                                               <<Len(files), Len(Limit(files))>>))
            /\ i' = 1
            /\ pc' = "for"
       ELSE /\ pc' = "crashed"
            /\ UNCHANGED <<limited_files, log, i>>
    /\ UNCHANGED <<dirExists, rawDir, procDirExists, local, blob, run,
                   station_id, df, cleaned_df, local_parquet, outcomes, prev>>

\* lines 112-113 and 80-82: the next file, or line 115 after the last one
ForLoop ==
    /\ pc = "for"
    /\ IF i <= Len(limited_files)
       THEN /\ station_id' = StationIdOf(limited_files[i])
            /\ log' = Append(log, Line("info", "Processing", StationIdOf(limited_files[i])))
            /\ pc' = "read_csv"
       ELSE /\ station_id' = station_id
            /\ log' = Append(log, Line("info", "Finished", <<>>))
            /\ pc' = "finished"
    /\ UNCHANGED <<dirExists, rawDir, procDirExists, local, blob, run, limited_files, i,
                   df, cleaned_df, local_parquet, outcomes, prev>>

(***************************************************************************)
(* process_station_file                                                    *)
(***************************************************************************)
\* ReadCsv, had read_csv been called outside the try: the exception ends main
ReadCsvUncaught ==
    /\ pc = "read_csv"
    /\ IF rawDir[Filename].readable
       THEN /\ df' = read_csv(rawDir[Filename])
            /\ pc' = "clean"
       ELSE /\ df' = df
            /\ pc' = "crashed"
    /\ UNCHANGED <<dirExists, rawDir, procDirExists, local, blob, run, limited_files, i,
                   station_id, cleaned_df, local_parquet, log, outcomes, prev>>

\* line 85; a file pandas cannot parse raises into the except of line 96
ReadCsv ==
    /\ pc = "read_csv"
    /\ IF rawDir[Filename].readable
       THEN /\ df' = read_csv(rawDir[Filename])
            /\ pc' = "clean"
            /\ UNCHANGED <<i, log, outcomes>>
       ELSE /\ df' = df
            /\ log' = Append(log, Line("error", "Error processing", Filename))
            /\ outcomes' = Ended("Failed", "none", "none")
            /\ NextFile
    /\ UNCHANGED <<dirExists, rawDir, procDirExists, local, blob, run, limited_files,
                   station_id, cleaned_df, local_parquet, prev>>

\* lines 86-90
Clean ==
    /\ pc = "clean"
    /\ LET r == clean_and_convert(df, station_id)
           l1 == IF r.raised
                 THEN Append(log, Line("error", "Failed cleaning file", station_id))
                 ELSE log
       IN /\ cleaned_df' = r.df
          /\ IF IsEmpty(r.df)
             THEN /\ log' = Append(l1, Line("warning", "No valid data", Filename))
                  /\ outcomes' = Ended("Skipped", "none", "none")
                  /\ NextFile
             ELSE /\ log' = l1
                  /\ pc' = "save"
                  /\ UNCHANGED <<i, outcomes>>
    /\ UNCHANGED <<dirExists, rawDir, procDirExists, local, blob, run, limited_files,
                   station_id, df, local_parquet, prev>>

\* lines 92-93 with save_parquet, lines 59-68.  os.makedirs is outside the try of
\* save_parquet: when it raises, the except of line 96 catches it.
SaveChoices == {"ok", "failed", "partial", "makedirs"}

Save ==
    /\ pc = "save"
    /\ \E choice \in SaveChoices :
         LET path == OutputPath(station_id) IN
         CASE choice = "makedirs" ->
                /\ ~procDirExists
                /\ log' = Append(log, Line("error", "Error processing", Filename))
                /\ outcomes' = Ended("Failed", choice, "none")
                /\ NextFile
                /\ UNCHANGED <<procDirExists, local, local_parquet>>
           [] choice = "ok" ->
                /\ procDirExists' = TRUE
                /\ local' = WriteFile(local, path, to_parquet(cleaned_df))
                /\ log' = Append(log, Line("info", "Saved Parquet", path))
                /\ local_parquet' = path
                /\ pc' = "upload"
                /\ UNCHANGED <<i, outcomes>>
           [] OTHER ->
                /\ procDirExists' = TRUE
                /\ local' = (IF choice = "partial"
                             THEN WriteFile(local, path, PartialFile) ELSE local)
                /\ log' = Append(log, Line("error", "Failed Saving Parquet", station_id))
                /\ local_parquet' = NoPath
                /\ outcomes' = Ended("Failed", choice, "none")
                /\ NextFile
    /\ UNCHANGED <<dirExists, rawDir, blob, run, limited_files,
                   station_id, df, cleaned_df, prev>>

\* Upload, had the except branch removed the local file
UploadCleanup ==
    /\ pc = "upload"
    /\ LET s3_key == S3Key(station_id) IN
       \E transferred \in BOOLEAN :
         IF transferred
         THEN /\ blob' = WriteFile(blob, s3_key, local[local_parquet])
              /\ local' = local
              /\ log' = Append(log, Line("info", "Uploaded to S3", s3_key))
              /\ outcomes' = Ended("Published", "ok", "ok")
         ELSE /\ blob' = blob
              /\ local' = [p \in DOMAIN local \ {local_parquet} |-> local[p]]
              /\ log' = Append(log, Line("error", "Failed S3 upload", local_parquet))
              /\ outcomes' = Ended("PublishFailed", "ok", "failed")
    /\ NextFile
    /\ UNCHANGED <<dirExists, rawDir, procDirExists, run, limited_files,
                   station_id, df, cleaned_df, local_parquet, prev>>

\* lines 94-95 with upload_to_s3, lines 71-76: one call of s3.upload_file
Upload ==
    /\ pc = "upload"
    /\ LET s3_key == S3Key(station_id) IN
       \E transferred \in BOOLEAN :
         IF transferred
         THEN /\ blob' = WriteFile(blob, s3_key, local[local_parquet])
              /\ log' = Append(log, Line("info", "Uploaded to S3", s3_key))
              /\ outcomes' = Ended("Published", "ok", "ok")
         ELSE /\ blob' = blob
              /\ log' = Append(log, Line("error", "Failed S3 upload", local_parquet))
              /\ outcomes' = Ended("PublishFailed", "ok", "failed")
    /\ NextFile
    /\ UNCHANGED <<dirExists, rawDir, procDirExists, local, run, limited_files,
                   station_id, df, cleaned_df, local_parquet, prev>>

\* the script is run again on the same directory: a new process, the disk and the bucket as left
Rerun ==
    /\ pc \in {"finished", "returned"}
    /\ run < MaxRuns
    /\ run' = run + 1
    /\ prev' = [local |-> local, blob |-> blob, files |-> limited_files, outcomes |-> outcomes]
    /\ pc' = "main"
    /\ limited_files' = <<>>
    /\ i' = 0
    /\ station_id' = <<>>
    /\ df' = EmptyFrame
    /\ cleaned_df' = EmptyFrame
    /\ local_parquet' = NoPath
    /\ log' = <<>>
    /\ outcomes' = <<>>
    /\ UNCHANGED <<dirExists, rawDir, procDirExists, local, blob>>

\* clean_and_convert called on its own, lines 40-56
CallClean ==
    /\ pc = "call_clean"
    /\ LET r == clean_and_convert(df, station_id)
       IN /\ cleaned_df' = r.df
          /\ log' = (IF r.raised
                     THEN Append(log, Line("error", "Failed cleaning file", station_id))
                     ELSE log)
    /\ pc' = "clean_returned"
    /\ UNCHANGED <<dirExists, rawDir, procDirExists, local, blob, run, limited_files, i,
                   station_id, df, local_parquet, outcomes, prev>>

\* one step of the running script
Step == CheckDir \/ Discover \/ ForLoop \/ ReadCsv \/ Clean \/ Save \/ Upload

Next == CheckDir \/ Discover \/ ForLoop \/ ReadCsv \/ Clean \/ Save \/ Upload \/ Rerun \/ CallClean

Spec == Init /\ [][Next]_vars

\* the interpreter keeps executing the script until main returns
FairSpec == Spec /\ WF_vars(Step)
(***************************************************************************)
(* Properties                                                              *)
(***************************************************************************)
LastOutcome == outcomes[Len(outcomes)]

\* the texts that are dates and numbers, and what they denote
ValidDates == {"2025-01-01", "2025-01-02"}
ValidNums == {"5.0", "8.0"}
DateNumber(t) == IF t = "2025-01-01" THEN 20250101 ELSE 20250102
NumberOf(t) == IF t = "5.0" THEN 50 ELSE 80
HasRequired(d) == {"DATE", "TEMP", "MAX", "MIN"} \subseteq Range(d.columns)
CleanReturns == pc \in {"clean", "call_clean"}
NumericFields == {<<"temp", "TEMP">>, <<"max_temp", "MAX">>, <<"min_temp", "MIN">>}

\* C1: the stages of a file are gated in order.  save_parquet is reached only
\* from clean_and_convert with a table that has rows; upload_to_s3 is reached
\* only from a save_parquet that wrote this file's table at this file's path;
\* the disk changes only in save_parquet and the bucket only in upload_to_s3;
\* a file whose cleaned table has no rows ends as Skipped with disk and bucket
\* untouched.
C1_StagesGated ==
    [][ /\ (pc' = "save" => pc = "clean" /\ i' = i /\ Len(cleaned_df'.rows) > 0)
        /\ (pc' = "upload" =>
              /\ pc = "save" /\ i' = i
              /\ local_parquet' = OutputPath(station_id)
              /\ local_parquet' \in DOMAIN local'
              /\ local'[local_parquet'] = to_parquet(cleaned_df))
        /\ (local' # local \/ procDirExists' # procDirExists => pc = "save")
        /\ (blob' # blob => pc = "upload")
        /\ (pc = "clean" /\ Len(cleaned_df'.rows) = 0 =>
              /\ local' = local /\ blob' = blob /\ procDirExists' = procDirExists
              /\ pc' = "for" /\ i' = i + 1
              /\ outcomes' = Append(outcomes, [file |-> limited_files[i], outcome |-> "Skipped",
                                               save |-> "none", upload |-> "none"]))
      ]_vars

\* one file was skipped for an empty table and another went through write and publish
C1_Witness ==
    \E a, b \in DOMAIN outcomes :
        outcomes[a].outcome = "Skipped" /\ outcomes[b].outcome = "Published"

\* C3: when the four required columns are present, clean_and_convert keeps a
\* row iff its DATE text is a date, whatever the numeric cells hold; in a kept
\* row each of temp, max_temp, min_temp is missing exactly when its text is
\* not a number, and otherwise holds the number.
C3_RetainedIffDateParses ==
    [][ CleanReturns /\ HasRequired(df) =>
          LET out == cleaned_df'
              kept == {k \in DOMAIN df.rows : df.rows[k]["DATE"] \in ValidDates}
          IN /\ Len(out.index) = Len(out.rows)
             /\ {out.index[j] + 1 : j \in DOMAIN out.index} = kept
             /\ Len(out.rows) = Cardinality(kept)
             /\ \A j \in DOMAIN out.rows : \A f \in NumericFields :
                  LET text == df.rows[out.index[j] + 1][f[2]]
                  IN /\ out.rows[j][f[1]].na <=> text \notin ValidNums
                     /\ text \in ValidNums => out.rows[j][f[1]].v = NumberOf(text)
      ]_vars

\* a row with an unparseable date was dropped and a row with an unparseable
\* temp next to a parseable max was kept
C3_Witness ==
    /\ pc = "clean_returned"
    /\ Len(cleaned_df.rows) < Len(df.rows)
    /\ \E j \in DOMAIN cleaned_df.rows :
         cleaned_df.rows[j]["temp"].na /\ ~cleaned_df.rows[j]["max_temp"].na

\* C4: when a required column is absent, clean_and_convert reports the
\* failure and returns a table without rows; in the batch nothing is written
\* or published for that file and the loop moves to the next file.
C4_MissingColumnNoOutput ==
    [][ CleanReturns /\ ~HasRequired(df) =>
          /\ Len(cleaned_df'.rows) = 0
          /\ Len(log') > Len(log)
          /\ log'[Len(log) + 1] = Line("error", "Failed cleaning file", station_id)
          /\ local' = local /\ blob' = blob /\ procDirExists' = procDirExists
          /\ (pc = "clean" =>
                /\ pc' = "for" /\ i' = i + 1
                /\ Len(outcomes') = Len(outcomes) + 1
                /\ outcomes'[Len(outcomes')].file = limited_files[i]
                /\ outcomes'[Len(outcomes')].save = "none"
                /\ outcomes'[Len(outcomes')].upload = "none")
      ]_vars

\* the batch met a file without the MIN column and went on to a later file
C4_Witness ==
    /\ pc = "read_csv"
    /\ i = 2
    /\ ~HasRequired(df)
    /\ Len(df.rows) > 0
    /\ Len(outcomes) = 1

\* C10: the table clean_and_convert returns is a stable filter of its input.
\* Its row labels are input positions in strictly increasing order (none
\* twice, none out of order), each row carries the date of the input row it
\* comes from, and every row has station_id equal to the argument.
C10_StableFilter ==
    [][ CleanReturns =>
          LET out == cleaned_df'
          IN /\ Len(out.index) = Len(out.rows)
             /\ \A j \in DOMAIN out.index : out.index[j] \in 0..(Len(df.rows) - 1)
             /\ \A j, k \in DOMAIN out.index : j < k => out.index[j] < out.index[k]
             /\ \A j \in DOMAIN out.rows :
                  LET src == df.rows[out.index[j] + 1]
                  IN /\ src["DATE"] \in ValidDates
                     /\ out.rows[j]["date"] = Val(DateNumber(src["DATE"]))
                     /\ out.rows[j]["station_id"] = station_id
      ]_vars

\* two rows were kept whose dates are in descending order in the input
C10_Witness ==
    /\ pc = "clean_returned"
    /\ Len(cleaned_df.rows) = 2
    /\ cleaned_df.rows[1]["date"].v > cleaned_df.rows[2]["date"].v
    /\ cleaned_df.rows[1]["station_id"] = <<"b">>
Discovered == pc \in {"for", "read_csv", "clean", "save", "upload", "finished"}
InFile == pc \in {"read_csv", "clean", "save", "upload"}
Terminal == {"Skipped", "Published", "PublishFailed", "Failed"}

\* every file of the list has been processed once, in order, with one terminal outcome
EachFileOnce ==
    /\ Len(outcomes) = Len(limited_files)
    /\ \A k \in DOMAIN outcomes :
         outcomes[k].file = limited_files[k] /\ outcomes[k].outcome \in Terminal

\* C2: when the input directory exists, every invocation of main reaches its
\* finished state, whatever fails in read_csv, clean_and_convert,
\* save_parquet or upload_to_s3, and then every file of limited_files has
\* been processed exactly once, in order, with exactly one terminal outcome.
C2_BatchCompletes == (dirExists /\ pc = "main") ~> (pc = "finished" /\ EachFileOnce)

\* a batch finished in which one file failed outright and another failed to publish
C2_Witness ==
    /\ pc = "finished"
    /\ \E a, b \in DOMAIN outcomes :
         outcomes[a].outcome = "Failed" /\ outcomes[b].outcome = "PublishFailed"

\* the names of RAW_DIR that end in .csv, and the name a path of limited_files stands for
CsvNames == {n \in DOMAIN rawDir : Len(n) >= 4 /\ SubSeq(n, Len(n) - 3, Len(n)) = <<".", "c", "s", "v">>}
NameOf(path) == SubSeq(path, Len(RAW_DIR) + 2, Len(path))
Listed == {NameOf(limited_files[k]) : k \in DOMAIN limited_files}

\* C5: once main has listed the directory, limited_files holds the first
\* min(FileCap, count) names ending in .csv in ascending name order, the
\* files are processed in that order, no other file is processed, and a
\* later invocation on the same directory chooses the same list.
C5_FirstNSorted ==
    Discovered =>
      /\ Len(limited_files) = (IF Cardinality(CsvNames) < FileCap THEN Cardinality(CsvNames) ELSE FileCap)
      /\ \A k \in DOMAIN limited_files :
           /\ NameOf(limited_files[k]) \in CsvNames
           /\ limited_files[k] = RAW_DIR \o <<"/">> \o NameOf(limited_files[k])
      /\ \A j, k \in DOMAIN limited_files :
           j < k => StrLess(NameOf(limited_files[j]), NameOf(limited_files[k]))
      /\ \A n \in CsvNames \ Listed : \A m \in Listed : StrLess(m, n)
      /\ Len(outcomes) <= Len(limited_files)
      /\ \A k \in DOMAIN outcomes : outcomes[k].file = limited_files[k]
      /\ (InFile => i = Len(outcomes) + 1 /\ i <= Len(limited_files))
      /\ (run > 1 => limited_files = prev.files)

\* a second invocation finished on a directory holding more .csv files than the cap
C5_Witness ==
    /\ pc = "finished"
    /\ run = 2
    /\ Cardinality(CsvNames) > FileCap
    /\ Len(outcomes) = FileCap

\* C6: when the input directory does not exist, main returns from its first
\* test: it never lists or processes a file, leaves the output directory,
\* the local files and the bucket as they were, never logs the finished
\* line, and its whole log is the one directory-not-found error.
C6_MissingDirAborts ==
    [][ ~dirExists =>
          /\ pc' \in {"main", "returned"}
          /\ local' = local /\ blob' = blob /\ procDirExists' = procDirExists
          /\ limited_files' = <<>> /\ outcomes' = <<>> /\ df' = EmptyFrame
          /\ (pc' = "returned" =>
                log' = <<Line("error", "Raw directory not found", RAW_DIR)>>)
      ]_vars

\* main returned for a missing directory with an older artifact still on disk
C6_Witness ==
    /\ ~dirExists
    /\ pc = "returned"
    /\ Len(log) = 1
    /\ OutputPath(<<"a">>) \in DOMAIN local

\* C7: when an invocation of main ends after one on the same directory in
\* which every file had the same write and publish outcomes, the local
\* files and the bucket are what they were at the end of that earlier
\* invocation: the same paths and keys with the same contents.
C7_RerunIdempotent ==
    (pc \in {"finished", "returned"} /\ run > 1 /\ outcomes = prev.outcomes) =>
        /\ local = prev.local
        /\ blob = prev.blob

\* a second invocation wrote and published again what the first had
C7_Witness ==
    /\ pc = "finished"
    /\ run = 2
    /\ outcomes = prev.outcomes
    /\ \E k \in DOMAIN outcomes : outcomes[k].outcome = "Published"
    /\ \E k \in DOMAIN outcomes : outcomes[k].outcome = "Skipped"

\* C8: upload_to_s3 is one attempt.  The step that makes it ends the file:
\* the loop moves to the next file, the local file stays on disk, and the
\* file gets one outcome; when the transfer fails the bucket is unchanged
\* and the outcome is PublishFailed, and when it succeeds only this file's
\* key changes.  Within an invocation the list of files never changes and
\* the loop never goes back, so no file is queued again.
C8_SinglePublishAttempt ==
    [][ /\ (Discovered /\ run' = run => limited_files' = limited_files /\ i' >= i)
        /\ (pc = "upload" =>
              /\ pc' = "for" /\ i' = i + 1
              /\ local' = local /\ local_parquet \in DOMAIN local'
              /\ Len(outcomes') = Len(outcomes) + 1
              /\ outcomes'[Len(outcomes')].file = limited_files[i]
              /\ Len(log') = Len(log) + 1
              /\ IF log'[Len(log')].level = "error"
                 THEN /\ log'[Len(log')].msg = "Failed S3 upload"
                      /\ blob' = blob
                      /\ outcomes'[Len(outcomes')].outcome = "PublishFailed"
                 ELSE /\ outcomes'[Len(outcomes')].outcome = "Published"
                      /\ DOMAIN blob' = DOMAIN blob \cup {S3Key(station_id)}
                      /\ blob'[S3Key(station_id)] = local[local_parquet]
                      /\ \A key \in DOMAIN blob :
                           key # S3Key(station_id) => blob'[key] = blob[key])
      ]_vars

\* a publish failed: the file is on disk, nothing under its key in the bucket
C8_Witness ==
    /\ pc = "for"
    /\ Len(outcomes) > 0
    /\ LastOutcome.outcome = "PublishFailed"
    /\ local_parquet \in DOMAIN local
    /\ S3Key(station_id) \notin DOMAIN blob

\* C9: any two distinct files of limited_files get distinct station ids,
\* hence distinct local output paths and distinct remote keys.
C9_DistinctStationIds ==
    \A j, k \in DOMAIN limited_files :
        j # k =>
          /\ StationIdOf(limited_files[j]) # StationIdOf(limited_files[k])
          /\ OutputPath(StationIdOf(limited_files[j])) # OutputPath(StationIdOf(limited_files[k]))
          /\ S3Key(StationIdOf(limited_files[j])) # S3Key(StationIdOf(limited_files[k]))
====
